---- MODULE Spec2Model ----
(***************************************************************************)
(* Model of the auxiliary scripts of contract-first-integrations:          *)
(*   - generate_pptx.py: parse_markdown_slides (markdown -> slide records) *)
(*     followed by the rendering loop of main();                           *)
(*   - convert-svg-to-png.py: the batch conversion loop of main().         *)
(* Strings are TLA+ strings; str.strip, str.startswith, slicing, join and  *)
(* the substring test are computed character by character.                 *)
(***************************************************************************)
EXTENDS Integers, Sequences, FiniteSets, TLC

(* ------------------------------ bounds -------------------------------- *)

\* Longest document (in lines) the parser is run on.
MaxLines == 4

\* Most ## sections of a sectioned document.
MaxSections == 3

\* Most files the pattern of the conversion script matches.
MaxFiles == 3

(* --------------------------- string helpers --------------------------- *)

\* Characters removed by str.strip() that can occur inside one line.
IsSpace(c) == c \in {" ", "\t"}

RECURSIVE lstrip(_)
lstrip(s) ==
    IF s = "" THEN ""
    ELSE IF IsSpace(Head(s)) THEN lstrip(Tail(s)) ELSE s

RECURSIVE rstrip(_)
rstrip(s) ==
    IF s = "" THEN ""
    ELSE IF IsSpace(SubSeq(s, Len(s), Len(s)))
         THEN rstrip(SubSeq(s, 1, Len(s) - 1))
         ELSE s

\* str.strip()
strip(s) == rstrip(lstrip(s))

\* str.startswith(p)
startswith(s, p) == Len(s) >= Len(p) /\ SubSeq(s, 1, Len(p)) = p

\* s[k:]
SliceFrom(s, k) == IF k >= Len(s) THEN "" ELSE SubSeq(s, k + 1, Len(s))

\* '\n'.join(seq)
RECURSIVE join(_)
join(seq) ==
    IF Len(seq) = 0 THEN ""
    ELSE IF Len(seq) = 1 THEN seq[1]
    ELSE seq[1] \o "\n" \o join(Tail(seq))

\* sub in s
Contains(s, sub) ==
    \E k \in 0..(Len(s) - Len(sub)) : SubSeq(s, k + 1, k + Len(sub)) = sub

\* s.split('\n')[0]
RECURSIVE FirstLine(_)
FirstLine(s) ==
    IF s = "" THEN ""
    ELSE IF Head(s) = "\n" THEN ""
    ELSE Head(s) \o FirstLine(Tail(s))

\* s.split('\n')
RECURSIVE split(_)
split(s) ==
    IF Len(FirstLine(s)) = Len(s) THEN <<s>>
    ELSE <<FirstLine(s)>> \o split(SliceFrom(s, Len(FirstLine(s)) + 1))

\* content.strip(): a newline is white space too.
RECURSIVE content_strip(_)
content_strip(s) ==
    IF s = "" THEN ""
    ELSE IF IsSpace(Head(s)) \/ Head(s) = "\n" THEN content_strip(Tail(s))
    ELSE IF IsSpace(SubSeq(s, Len(s), Len(s))) \/ SubSeq(s, Len(s), Len(s)) = "\n"
         THEN content_strip(SubSeq(s, 1, Len(s) - 1))
    ELSE s

\* line.strip('*')
RECURSIVE strip_stars(_)
strip_stars(s) ==
    IF s = "" THEN ""
    ELSE IF Head(s) = "*" THEN strip_stars(Tail(s))
    ELSE IF SubSeq(s, Len(s), Len(s)) = "*"
         THEN strip_stars(SubSeq(s, 1, Len(s) - 1))
    ELSE s

\* str.endswith(p)
endswith(s, p) ==
    Len(s) >= Len(p) /\ SubSeq(s, Len(s) - Len(p) + 1, Len(s)) = p

(* ------------------------------- state -------------------------------- *)

VARIABLES
    pc,             \* position in the script: "parse", "render", "done"
    lines,          \* md_content.split('\n')
    i,              \* line index of the parser (0-based, as in the source)
    slides,         \* records appended so far / returned by the parser
    current_slide,  \* the record under construction
    n,              \* number of records handed to the rendering loop so far
    deck,           \* gen.prs.slides: the slides rendered so far
    \* convert-svg-to-png.py
    has_rsvg,       \* result of check_rsvg_convert()
    svg_files,      \* glob.glob(pattern)
    idx,            \* files of sorted(svg_files) the for loop has gone through
    success_count,
    failed_count,
    failed_files,
    calls,          \* the files handed to convert_svg_to_png, in call order
    results,        \* the outcome of each of these calls
    nonfiles,       \* the files for which os.path.isfile was false
    exit_code       \* the process exit status (-1: still running)

slideVars == <<lines, i, slides, current_slide, n, deck>>

convVars ==
    <<has_rsvg, svg_files, idx, success_count, failed_count, failed_files,
      calls, results, nonfiles, exit_code>>

vars == <<pc, slideVars, convVars>>

(* ------------------------- parse_markdown_slides ---------------------- *)

\* {"title": "", "content": "", "type": "content"}; hasLang tells whether
\* the dict holds the key "language".
NewSlide ==
    [title |-> "", content |-> "", type |-> "content",
     hasLang |-> FALSE, language |-> ""]

\* The fence marker: three backticks in the source. String literals of this
\* module cannot hold a backtick, so the model writes that character as ~
\* (no line of the model uses ~ for anything else).
Fence == "~~~"

\* The lines the documents are made of.
LinePool ==
    {"", "---", " --- ", "# T", "## A", "## Questions", "## Key Takeaways",
     "~~~py", "~~~", "x", "  - y"}

Docs == UNION {[1..k -> LinePool] : k \in 1..MaxLines}

\* line = lines[i].strip()
line == strip(lines[i + 1])

\* if current_slide["title"] or current_slide["content"]
NonEmpty(sl) == sl.title # "" \/ sl.content # ""

\* Flush without the test on title and content.
FlushAlways(sl, cur) == Append(sl, cur)

\* if <non-empty>: slides.append(current_slide)
Flush(sl, cur) == IF NonEmpty(cur) THEN Append(sl, cur) ELSE sl

\* The inner while stopping one line before the end of the document.
RECURSIVE FenceEndShort(_, _)
FenceEndShort(ls, j) ==
    IF j < Len(ls) - 1 /\ ~startswith(strip(ls[j + 1]), Fence)
    THEN FenceEndShort(ls, j + 1)
    ELSE j

\* The inner while: the index of the closing fence, or len(lines).
RECURSIVE FenceEnd(_, _)
FenceEnd(ls, j) ==
    IF j < Len(ls) /\ ~startswith(strip(ls[j + 1]), Fence)
    THEN FenceEnd(ls, j + 1)
    ELSE j

IsSeparator == line = "---"

\* The # test without the test on the title of the current record.
IsH1NoGuard == startswith(line, "# ")

IsH1 == startswith(line, "# ") /\ current_slide.title = ""
IsH2 == startswith(line, "## ")
IsFence == startswith(line, Fence)

Scanning == pc = "parse" /\ i < Len(lines)

\* Slide separator
Separator ==
    /\ Scanning
    /\ IsSeparator
    /\ slides' = Flush(slides, current_slide)
    /\ current_slide' = NewSlide
    /\ i' = i + 1
    /\ UNCHANGED <<pc, lines, n, deck, convVars>>

\* Title (H1)
H1Title ==
    /\ Scanning
    /\ ~IsSeparator
    /\ IsH1
    /\ current_slide' =
         [current_slide EXCEPT
            !.title = strip(SliceFrom(line, 2)),
            !.type = IF i = 0 THEN "title" ELSE "content"]
    /\ i' = i + 1
    /\ UNCHANGED <<pc, lines, slides, n, deck, convVars>>

\* The record that receives the title of a ## heading.
H2Base(cur) == IF NonEmpty(cur) THEN NewSlide ELSE cur

\* The ## branch without the append of the record it closes.
H2HeadingNoFlush ==
    /\ pc = "parse" /\ i < Len(lines)
    /\ strip(lines[i + 1]) # "---"
    /\ ~(startswith(strip(lines[i + 1]), "# ") /\ current_slide.title = "")
    /\ startswith(strip(lines[i + 1]), "## ")
    /\ current_slide' =
         [H2Base(current_slide) EXCEPT
            !.title = strip(SliceFrom(strip(lines[i + 1]), 3))]
    /\ i' = i + 1
    /\ UNCHANGED <<pc, lines, slides, n, deck, convVars>>

\* Title (H2)
H2Heading ==
    /\ Scanning
    /\ ~IsSeparator
    /\ ~IsH1
    /\ IsH2
    /\ slides' = Flush(slides, current_slide)
    /\ current_slide' =
         [H2Base(current_slide) EXCEPT !.title = strip(SliceFrom(line, 3))]
    /\ i' = i + 1
    /\ UNCHANGED <<pc, lines, n, deck, convVars>>

\* The code block branch adding the fenced lines to the content.
CodeBlockAppends ==
    /\ pc = "parse" /\ i < Len(lines)
    /\ ~IsSeparator
    /\ ~IsH1
    /\ ~IsH2
    /\ IsFence
    /\ LET j == FenceEnd(lines, i + 1)
           code_lines == SubSeq(lines, i + 2, j)
       IN  /\ current_slide' =
                [current_slide EXCEPT
                   !.content = @ \o join(code_lines),
                   !.type = "code",
                   !.hasLang = TRUE,
                   !.language = strip(SliceFrom(line, 3))]
           /\ i' = j + 1
    /\ UNCHANGED <<pc, lines, slides, n, deck, convVars>>

\* Code block
CodeBlock ==
    /\ Scanning
    /\ ~IsSeparator
    /\ ~IsH1
    /\ ~IsH2
    /\ IsFence
    /\ LET j == FenceEnd(lines, i + 1)
           code_lines == SubSeq(lines, i + 2, j)
       IN  /\ current_slide' =
                [current_slide EXCEPT
                   !.content = join(code_lines),
                   !.type = "code",
                   !.hasLang = TRUE,
                   !.language = strip(SliceFrom(line, 3))]
           /\ i' = j + 1
    /\ UNCHANGED <<pc, lines, slides, n, deck, convVars>>

\* Regular content
Regular ==
    /\ Scanning
    /\ ~IsSeparator
    /\ ~IsH1
    /\ ~IsH2
    /\ ~IsFence
    /\ current_slide' =
         IF line # ""
         THEN [current_slide EXCEPT !.content = @ \o line \o "\n"]
         ELSE current_slide
    /\ i' = i + 1
    /\ UNCHANGED <<pc, lines, slides, n, deck, convVars>>

\* Add last slide; return slides
AddLastSlide ==
    /\ pc = "parse"
    /\ i >= Len(lines)
    /\ slides' = Flush(slides, current_slide)
    /\ pc' = "render"
    /\ UNCHANGED <<lines, i, current_slide, n, deck, convVars>>

(* ------------------------------- main() ------------------------------- *)

\* main() with the keyword test placed before the test on the code type.
BranchKeywordFirst(sd, num) ==
    IF sd.type = "title" /\ num = 1 THEN "title"
    ELSE IF Contains(sd.title, "Key Takeaways")
            \/ Contains(sd.title, "Questions") THEN "section"
    ELSE IF sd.type = "code" THEN "code"
    ELSE "content"

\* The branch main() takes for record number num (1-based).
Branch(sd, num) ==
    IF sd.type = "title" /\ num = 1 THEN "title"
    ELSE IF sd.type = "code" THEN "code"
    ELSE IF Contains(sd.title, "Key Takeaways")
            \/ Contains(sd.title, "Questions") THEN "section"
    ELSE "content"

\* The page number taken before the new slide is counted.
PageNumBeforeAdd(d) == Len(d)

\* len(self.prs.slides) after add_slide: the page number of the footer.
PageNum(d) == Len(d) + 1

\* The bullet character and the three status icons of the source are not
\* ASCII; the model writes them as the characters below, which no line of the
\* model uses for anything else.
BulletMark == "@"
IconMarks == {"+", "!", "^"}

\* _add_formatted_content: the paragraph made of one line of the content.
FormatLine(l) ==
    IF startswith(l, "- ") \/ startswith(l, BulletMark \o " ")
    THEN [text |-> strip(SliceFrom(l, 2)), level |-> 0, style |-> "bullet"]
    ELSE IF startswith(l, "  - ")
    THEN [text |-> strip(SliceFrom(l, 4)), level |-> 1, style |-> "sub-bullet"]
    ELSE IF startswith(l, "**") /\ endswith(l, "**")
    THEN [text |-> strip_stars(l), level |-> 0, style |-> "emphasis"]
    ELSE IF \E c \in IconMarks : startswith(l, c)
    THEN [text |-> l, level |-> 0, style |-> "icon"]
    ELSE IF strip(l) # ""
    THEN [text |-> l, level |-> 0, style |-> "text"]
    ELSE [text |-> "", level |-> 0, style |-> "empty"]

\* _add_formatted_content: one paragraph per line of content.strip().
FormattedContent(content) ==
    LET ls == split(content_strip(content))
    IN  [k \in 1..Len(ls) |-> FormatLine(ls[k])]

\* The subtitle and author_info arguments main() gives add_title_slide.
Subtitle(content) == IF content # "" THEN split(content)[1] ELSE ""
AuthorInfo(content) == content

Rendering == pc = "render" /\ n < Len(slides)

slide_data == slides[n + 1]

\* gen.add_title_slide(...): no footer
AddTitleSlide ==
    /\ Rendering
    /\ Branch(slide_data, n + 1) = "title"
    /\ deck' = Append(deck, [kind |-> "title", title |-> slide_data.title,
                             footer |-> 0,
                             subtitle |-> Subtitle(slide_data.content),
                             author_info |-> AuthorInfo(slide_data.content)])
    /\ n' = n + 1
    /\ UNCHANGED <<pc, lines, i, slides, current_slide, convVars>>

\* gen.add_code_slide(...): footer with len(self.prs.slides)
AddCodeSlide ==
    /\ Rendering
    /\ Branch(slide_data, n + 1) = "code"
    /\ deck' = Append(deck, [kind |-> "code", title |-> slide_data.title,
                             footer |-> PageNum(deck)])
    /\ n' = n + 1
    /\ UNCHANGED <<pc, lines, i, slides, current_slide, convVars>>

\* gen.add_section_slide(...): no footer
AddSectionSlide ==
    /\ Rendering
    /\ Branch(slide_data, n + 1) = "section"
    /\ deck' = Append(deck, [kind |-> "section", title |-> slide_data.title,
                             footer |-> 0])
    /\ n' = n + 1
    /\ UNCHANGED <<pc, lines, i, slides, current_slide, convVars>>

\* gen.add_content_slide(...): footer with len(self.prs.slides)
AddContentSlide ==
    /\ Rendering
    /\ Branch(slide_data, n + 1) = "content"
    /\ deck' = Append(deck, [kind |-> "content", title |-> slide_data.title,
                             footer |-> PageNum(deck),
                             paragraphs |->
                                 FormattedContent(slide_data.content)])
    /\ n' = n + 1
    /\ UNCHANGED <<pc, lines, i, slides, current_slide, convVars>>

\* gen.save(...); return 0
Save ==
    /\ pc = "render"
    /\ n >= Len(slides)
    /\ pc' = "done"
    /\ UNCHANGED <<lines, i, slides, current_slide, n, deck, convVars>>

(* --------------------------- specification ---------------------------- *)

\* The conversion script before it starts.
ConvIdle ==
    /\ has_rsvg = FALSE
    /\ svg_files = <<>>
    /\ idx = 0
    /\ success_count = 0
    /\ failed_count = 0
    /\ failed_files = <<>>
    /\ calls = <<>>
    /\ results = <<>>
    /\ nonfiles = {}
    /\ exit_code = -1

\* The slide generator before it parses.
SlidesIdle ==
    /\ i = 0
    /\ slides = <<>>
    /\ current_slide = NewSlide
    /\ n = 0
    /\ deck = <<>>

Init ==
    /\ pc = "parse"
    /\ lines \in Docs
    /\ SlidesIdle
    /\ ConvIdle

Next ==
    \/ Separator
    \/ H1Title
    \/ H2Heading
    \/ CodeBlock
    \/ Regular
    \/ AddLastSlide
    \/ AddTitleSlide
    \/ AddCodeSlide
    \/ AddSectionSlide
    \/ AddContentSlide
    \/ Save

Spec == Init /\ [][Next]_vars

(* ------------------ specification: fenced documents ------------------ *)

\* The lines of the documents the termination of the parser is checked on.
FencePool == {"", "---", "# T", "## Questions", "~~~py", "~~~", "x"}

FenceDocs == UNION {[1..k -> FencePool] : k \in 1..MaxLines}

InitFence ==
    /\ pc = "parse"
    /\ lines \in FenceDocs
    /\ SlidesIdle
    /\ ConvIdle

\* The script is a sequential program: it takes its next step whenever it
\* has one.
FairSpec == InitFence /\ [][Next]_vars /\ WF_vars(Next)

(* ------------------ specification: sectioned documents ---------------- *)

\* What a sectioned document can hold before its first ## heading.
Preambles == {<<>>, <<"# T">>, <<"", "# T", "x">>, <<"x">>}

\* The ## heading lines of a sectioned document.
HeadPool == {"## A", "  ## Questions  "}

\* The bodies of its sections.
BodyPool ==
    {<<"", "  - y">>, <<"# T">>, <<"~~~py", "x", "", "~~~">>, <<"x", "~~~">>,
     <<"x", "---">>, <<>>}

RECURSIVE SectionSeqs(_)
SectionSeqs(k) ==
    IF k = 0 THEN {<<>>}
    ELSE {<<h>> \o b \o rest :
            h \in HeadPool, b \in BodyPool, rest \in SectionSeqs(k - 1)}

SectionDocs ==
    {pre \o secs :
        pre \in Preambles,
        secs \in UNION {SectionSeqs(k) : k \in 1..MaxSections}}

InitSections ==
    /\ pc = "parse"
    /\ lines \in SectionDocs
    /\ SlidesIdle
    /\ ConvIdle

SpecSections == InitSections /\ [][Next]_vars

(* ---------------- convert-svg-to-png.py: main() ------------------------ *)

\* The file names the pattern can match; a smaller number sorts first.
Files == 1..MaxFiles

\* What glob.glob can return: some of the files, each once, in any order.
GlobResults ==
    {s \in UNION {[1..k -> Files] : k \in 0..MaxFiles} :
        \A a, b \in 1..Len(s) : a # b => s[a] # s[b]}

\* sorted(...)
RECURSIVE Insert(_, _)
Insert(x, s) ==
    IF s = <<>> THEN <<x>>
    ELSE IF x <= Head(s) THEN <<x>> \o s
    ELSE <<Head(s)>> \o Insert(x, Tail(s))

RECURSIVE sorted(_)
sorted(s) == IF s = <<>> THEN <<>> ELSE Insert(Head(s), sorted(Tail(s)))

\* What one run of rsvg-convert and the size lookup can end in.
Outcomes == {"ok", "CalledProcessError", "TimeoutExpired", "Exception"}

\* convert_svg_to_png: (success, size or error message)
convert_svg_to_png(outcome) ==
    IF outcome = "ok" THEN <<TRUE, "size">>
    ELSE IF outcome = "CalledProcessError" THEN <<FALSE, "Conversion error">>
    ELSE IF outcome = "TimeoutExpired" THEN <<FALSE, "Conversion timeout (>30s)">>
    ELSE <<FALSE, "str(e)">>

\* The exit status the system keeps of sys.exit(code): its low 8 bits.
ExitStatusRange == 256
ExitStatus(code) == code % ExitStatusRange

\* int(sys.argv[k]) raises ValueError: the script ends with a traceback.
BadArguments ==
    /\ pc = "args"
    /\ pc' = "exit"
    /\ exit_code' = ExitStatus(1)
    /\ UNCHANGED <<slideVars, has_rsvg, svg_files, idx, success_count,
                   failed_count, failed_files, calls, results, nonfiles>>

ParseArguments ==
    /\ pc = "args"
    /\ pc' = "check"
    /\ UNCHANGED <<slideVars, convVars>>

\* check_rsvg_convert() finds no converter: sys.exit(1)
ToolMissing ==
    /\ pc = "check"
    /\ has_rsvg' = FALSE
    /\ pc' = "exit"
    /\ exit_code' = ExitStatus(1)
    /\ UNCHANGED <<slideVars, svg_files, idx, success_count, failed_count,
                   failed_files, calls, results, nonfiles>>

ToolFound ==
    /\ pc = "check"
    /\ has_rsvg' = TRUE
    /\ pc' = "glob"
    /\ UNCHANGED <<slideVars, svg_files, idx, success_count, failed_count,
                   failed_files, calls, results, nonfiles, exit_code>>

\* glob.glob(pattern) is empty: sys.exit(1)
NoFiles ==
    /\ pc = "glob"
    /\ svg_files' = <<>>
    /\ pc' = "exit"
    /\ exit_code' = ExitStatus(1)
    /\ UNCHANGED <<slideVars, has_rsvg, idx, success_count, failed_count,
                   failed_files, calls, results, nonfiles>>

\* glob.glob(pattern) finds files; the counters are reset.
FilesFound ==
    /\ pc = "glob"
    /\ \E g \in GlobResults \ {<<>>} : svg_files' = g
    /\ success_count' = 0
    /\ failed_count' = 0
    /\ failed_files' = <<>>
    /\ idx' = 0
    /\ pc' = "convert"
    /\ UNCHANGED <<slideVars, has_rsvg, calls, results, nonfiles, exit_code>>

Converting == pc = "convert" /\ idx < Len(svg_files)

svg_file == sorted(svg_files)[idx + 1]

\* os.path.isfile(svg_file) is false: the file is passed over.
SkipNonFile ==
    /\ Converting
    /\ nonfiles' = nonfiles \cup {svg_file}
    /\ idx' = idx + 1
    /\ UNCHANGED <<pc, slideVars, has_rsvg, svg_files, success_count,
                   failed_count, failed_files, calls, results, exit_code>>

\* The conversion succeeds.
ConvertSuccess ==
    /\ Converting
    /\ \E o \in Outcomes :
          /\ convert_svg_to_png(o)[1]
          /\ results' = Append(results, o)
    /\ calls' = Append(calls, svg_file)
    /\ success_count' = success_count + 1
    /\ idx' = idx + 1
    /\ UNCHANGED <<pc, slideVars, has_rsvg, svg_files, failed_count,
                   failed_files, nonfiles, exit_code>>

\* A failure that leaves the loop instead of going on with the next file.
ConvertFailureAborts ==
    /\ pc = "convert" /\ idx < Len(svg_files)
    /\ \E o \in Outcomes :
          /\ ~convert_svg_to_png(o)[1]
          /\ results' = Append(results, o)
    /\ calls' = Append(calls, sorted(svg_files)[idx + 1])
    /\ failed_count' = failed_count + 1
    /\ failed_files' = Append(failed_files, sorted(svg_files)[idx + 1])
    /\ idx' = Len(svg_files)
    /\ UNCHANGED <<pc, slideVars, has_rsvg, svg_files, success_count,
                   nonfiles, exit_code>>

\* The conversion fails: converter error, timeout or any other exception.
ConvertFailure ==
    /\ Converting
    /\ \E o \in Outcomes :
          /\ ~convert_svg_to_png(o)[1]
          /\ results' = Append(results, o)
    /\ calls' = Append(calls, svg_file)
    /\ failed_count' = failed_count + 1
    /\ failed_files' = Append(failed_files, svg_file)
    /\ idx' = idx + 1
    /\ UNCHANGED <<pc, slideVars, has_rsvg, svg_files, success_count,
                   nonfiles, exit_code>>

\* A summary that exits with 1 whenever a conversion failed.
SummaryExitsOne ==
    /\ pc = "convert"
    /\ idx >= Len(svg_files)
    /\ pc' = "exit"
    /\ exit_code' = ExitStatus(IF failed_count > 0 THEN 1 ELSE 0)
    /\ UNCHANGED <<slideVars, has_rsvg, svg_files, idx, success_count,
                   failed_count, failed_files, calls, results, nonfiles>>

\* Print summary; sys.exit(failed_count)
Summary ==
    /\ pc = "convert"
    /\ idx >= Len(svg_files)
    /\ pc' = "exit"
    /\ exit_code' = ExitStatus(failed_count)
    /\ UNCHANGED <<slideVars, has_rsvg, svg_files, idx, success_count,
                   failed_count, failed_files, calls, results, nonfiles>>

InitConvert ==
    /\ pc = "args"
    /\ lines = <<>>
    /\ SlidesIdle
    /\ ConvIdle

NextConvert ==
    \/ BadArguments
    \/ ParseArguments
    \/ ToolMissing
    \/ ToolFound
    \/ NoFiles
    \/ FilesFound
    \/ SkipNonFile
    \/ ConvertSuccess
    \/ ConvertFailure
    \/ Summary

SpecConvert == InitConvert /\ [][NextConvert]_vars

(* ------------------------ properties: the parser ---------------------- *)

Parsed == pc # "parse"

\* The parser has just returned its records.
Returned == pc = "render" /\ n = 0

BlankOrSeparator(l) == strip(l) = "" \/ strip(l) = "---"

\* C1: every record the parser appends has a non-empty title or a non-empty
\* content, and a document made only of --- lines and blank lines yields no
\* record at all.
C1_NoEmptyRecord ==
    /\ \A k \in 1..Len(slides) : slides[k].title # "" \/ slides[k].content # ""
    /\ (Parsed /\ \A k \in 1..Len(lines) : BlankOrSeparator(lines[k]))
          => slides = <<>>

\* C1 witness: a parsed document with two consecutive --- lines and at least
\* one record emitted.
C1_Witness ==
    /\ Parsed
    /\ Len(slides) >= 1
    /\ \E k \in 1..(Len(lines) - 1) : lines[k] = "---" /\ lines[k + 1] = "---"

\* The opening fence lines of a document (0-based indexes), as the parser
\* can meet them.
FenceContent(ls, a) == join(SubSeq(ls, a + 2, FenceEnd(ls, a + 1)))
FenceLanguage(ls, a) == strip(SliceFrom(strip(ls[a + 1]), 3))

\* C2 (as claimed): every emitted record that received a fenced block has
\* type code, and its content and language are exactly the inter-fence
\* lines and the opening fence's trailing text of a fenced block of the
\* document, whatever else the record holds.
C2_FencedRecordIsVerbatimCode ==
    \A k \in 1..Len(slides) :
        slides[k].hasLang =>
            /\ slides[k].type = "code"
            /\ \E a \in 0..(Len(lines) - 1) :
                  /\ startswith(strip(lines[a + 1]), Fence)
                  /\ slides[k].content = FenceContent(lines, a)
                  /\ slides[k].language = FenceLanguage(lines, a)

FirstNonBlankIsH1(ls) ==
    \E k \in 1..Len(ls) :
        /\ startswith(strip(ls[k]), "# ")
        /\ \A m \in 1..(k - 1) : strip(ls[m]) = ""

\* C3 (as claimed): when the first record of the document gets its title
\* from an H1 heading (here: the first non-blank line is an H1 heading), the
\* first record is emitted with type title.
C3_FirstH1RecordIsTitle ==
    (Parsed /\ FirstNonBlankIsH1(lines)) =>
        (Len(slides) >= 1 /\ slides[1].type = "title")

\* C4 (as claimed): consuming a ## heading line leaves a new current record:
\* title = heading text, empty content, type content, no language key.
C4_H2StartsNewRecord ==
    [][(Scanning /\ IsH2) =>
          current_slide' =
             [NewSlide EXCEPT !.title = strip(SliceFrom(line, 3))]]_vars

\* C5 (as claimed): a returned record holds a language key only if its type
\* is code.
C5_LanguageOnlyOnCode ==
    \A k \in 1..Len(slides) : slides[k].hasLang => slides[k].type = "code"

(* ----------------------- properties: the renderer --------------------- *)

HasKeyword(t) == Contains(t, "Key Takeaways") \/ Contains(t, "Questions")

\* C7 (as claimed): every record whose title holds a section-divider keyword
\* and that is not rendered as the title slide is rendered as a section
\* divider without footer, also when its type is code.
C7_KeywordAlwaysDivider ==
    \A k \in 1..Len(deck) :
        (HasKeyword(slides[k].title) /\ deck[k].kind # "title") =>
            (deck[k].kind = "section" /\ deck[k].footer = 0)

\* C7 (amended): a record whose title holds a keyword, whose type is not code
\* and that is not rendered as the title slide is rendered as a section
\* divider without footer; a record of type code is rendered as a code slide
\* with a footer, whatever its title.
C7_KeywordDividerUnlessCode ==
    \A k \in 1..Len(deck) :
        /\ (HasKeyword(slides[k].title) /\ deck[k].kind # "title"
              /\ slides[k].type # "code") =>
                (deck[k].kind = "section" /\ deck[k].footer = 0)
        /\ slides[k].type = "code" =>
                (deck[k].kind = "code" /\ deck[k].footer # 0)

\* C7 witness: a deck with a keyword-titled content record rendered as a
\* divider and a keyword-titled code record rendered as a code slide.
C7_Witness ==
    /\ pc = "done"
    /\ \E k \in 1..Len(deck) :
          HasKeyword(slides[k].title) /\ deck[k].kind = "section"
    /\ \E k \in 1..Len(deck) :
          HasKeyword(slides[k].title) /\ deck[k].kind = "code"

\* C8: one slide per record, in record order; the footer of a content or
\* code slide shows the slide's 1-based position in the deck, and title and
\* section slides have no footer.
C8_OneSlidePerRecordWithPageNumber ==
    /\ Len(deck) = n
    /\ pc = "done" => Len(deck) = Len(slides)
    /\ \A k \in 1..Len(deck) :
          /\ deck[k].title = slides[k].title
          /\ deck[k].kind = Branch(slides[k], k)
          /\ deck[k].kind \in {"content", "code"} => deck[k].footer = k
          /\ deck[k].kind \in {"title", "section"} => deck[k].footer = 0

\* C8 witness: a finished deck of at least three slides where a footered
\* slide follows a title slide and a section divider.
C8_Witness ==
    /\ pc = "done"
    /\ Len(deck) >= 3
    /\ deck[1].kind = "title"
    /\ \E k \in 2..Len(deck) : deck[k].kind = "section"
          /\ \E m \in (k + 1)..Len(deck) : deck[m].footer = m

(* ------------------- properties: sectioned documents ------------------ *)

\* The ## heading lines of ls from line k on (1-based indexes), read as
\* markdown: a heading line inside a fenced block is code, not a heading.
RECURSIVE H2Lines(_, _, _)
H2Lines(ls, k, inFence) ==
    IF k > Len(ls) THEN <<>>
    ELSE IF startswith(strip(ls[k]), Fence) THEN H2Lines(ls, k + 1, ~inFence)
    ELSE IF ~inFence /\ startswith(strip(ls[k]), "## ")
         THEN <<k>> \o H2Lines(ls, k + 1, inFence)
    ELSE H2Lines(ls, k + 1, inFence)

Heads == H2Lines(lines, 1, FALSE)

\* The end (exclusive) of the section opened by the k-th heading.
SectionEnd(k) == IF k < Len(Heads) THEN Heads[k + 1] ELSE Len(lines) + 1

\* The document has a # title line before its first ## heading.
TitledPreamble ==
    \E k \in 1..(Heads[1] - 1) :
        /\ startswith(strip(lines[k]), "# ")
        /\ \A m \in 1..(k - 1) : strip(lines[m]) = ""

\* The document is made of sections: no --- line, at least one ## heading,
\* a non-empty body under every heading, and before the first heading either
\* nothing but blank lines or a # title line.
Sectioned ==
    /\ \A k \in 1..Len(lines) : strip(lines[k]) # "---"
    /\ Len(Heads) >= 1
    /\ \A k \in 1..Len(Heads) :
          \E m \in (Heads[k] + 1)..(SectionEnd(k) - 1) : strip(lines[m]) # ""
    /\ \/ TitledPreamble
       \/ \A m \in 1..(Heads[1] - 1) : strip(lines[m]) = ""

\* The number of records before the first ## record.
TitleRecords == IF TitledPreamble THEN 1 ELSE 0

\* C6: a document made of N ## sections yields exactly N records, or N + 1
\* when a # title line precedes the first ##, and the k-th ## record bears
\* the text of the k-th ## heading.
C6_OneRecordPerSection ==
    (Returned /\ Sectioned) =>
        /\ Len(slides) = Len(Heads) + TitleRecords
        /\ \A k \in 1..Len(Heads) :
              slides[k + TitleRecords].title =
                  strip(SliceFrom(strip(lines[Heads[k]]), 3))

\* C6 witness: a parsed sectioned document with a title line, at least two
\* sections with different headings and a fenced block in a body.
C6_Witness ==
    /\ Returned
    /\ Sectioned
    /\ TitledPreamble
    /\ Len(Heads) >= 2
    /\ lines[Heads[1]] # lines[Heads[2]]
    /\ \E k \in 1..Len(lines) : startswith(strip(lines[k]), Fence)
    /\ Len(slides) = Len(Heads) + 1

(* ------------------- properties: the conversion script ---------------- *)

\* The calls of convert_svg_to_png that failed, in call order.
RECURSIVE FailedCalls(_, _)
FailedCalls(cs, rs) ==
    IF cs = <<>> THEN <<>>
    ELSE IF rs[1] = "ok" THEN FailedCalls(Tail(cs), Tail(rs))
    ELSE <<cs[1]>> \o FailedCalls(Tail(cs), Tail(rs))

NumFailed == Len(FailedCalls(calls, results))

\* The run went into the conversion loop.
ReachedLoop == has_rsvg /\ svg_files # <<>>

\* C9 (as claimed): in every run, also one that ends before the conversion
\* loop, the exit code equals the number of failed conversions and is 0
\* exactly when no conversion failed.
C9_ExitCodeIsFailureCount ==
    pc = "exit" =>
        (exit_code = NumFailed /\ (exit_code = 0 <=> NumFailed = 0))

\* C9 (amended): a run that goes through the conversion loop exits with the
\* number of failed conversions (as the system keeps it, modulo 256), which
\* below 256 failures is 0 exactly when none failed; a run that ends before
\* the loop exits with 1 although no conversion was attempted.
C9_ExitCodeIsFailureCountAfterLoop ==
    pc = "exit" =>
        IF ReachedLoop
        THEN /\ exit_code = NumFailed % ExitStatusRange
             /\ NumFailed < ExitStatusRange =>
                   (exit_code = 0 <=> NumFailed = 0)
        ELSE exit_code = 1 /\ calls = <<>>

\* C9 witness: a finished run with one success and two failures, exit code 2.
C9_Witness ==
    /\ pc = "exit"
    /\ ReachedLoop
    /\ success_count = 1
    /\ NumFailed = 2
    /\ exit_code = 2

\* The elements of a sequence without those of a set, in order.
RECURSIVE Without(_, _)
Without(s, drop) ==
    IF s = <<>> THEN <<>>
    ELSE IF Head(s) \in drop THEN Without(Tail(s), drop)
    ELSE <<Head(s)>> \o Without(Tail(s), drop)

Ascending(s) == \A a, b \in 1..Len(s) : a < b => s[a] < s[b]

InSeq(x, s) == \E k \in 1..Len(s) : s[k] = x

\* C10: a failed file never stops the batch. At every moment the counters
\* add up to the number of files attempted and failed_files lists exactly
\* the failed ones; the files are attempted in ascending order, each once;
\* and when the loop is over every regular file the pattern matched has been
\* attempted, whatever the outcomes.
C10_FailureNeverStopsBatch ==
    /\ Len(results) = Len(calls)
    /\ success_count + failed_count = Len(calls)
    /\ failed_files = FailedCalls(calls, results)
    /\ Ascending(calls)
    /\ \A f \in Files : InSeq(f, calls) => (InSeq(f, svg_files) /\ f \notin nonfiles)
    /\ (pc = "exit" /\ ReachedLoop) =>
          \A f \in Files :
              (InSeq(f, svg_files) /\ f \notin nonfiles) => InSeq(f, calls)

\* C10 witness: a finished batch whose first file failed and whose later
\* files were still attempted, one of them with success.
C10_Witness ==
    /\ pc = "exit"
    /\ Len(calls) = 3
    /\ results[1] # "ok"
    /\ results[2] = "ok"
    /\ results[3] = "TimeoutExpired"
    /\ failed_files = <<calls[1], calls[3]>>

(* -------------------- properties: unterminated fences ----------------- *)

\* The opening fence left without a closing fence (1-based line number), or
\* 0 when every fence of the document is closed: outside a fenced block a
\* fence line opens one, inside it the next fence line closes it.
RECURSIVE OpenFence(_, _, _)
OpenFence(ls, k, open) ==
    IF k > Len(ls) THEN open
    ELSE IF startswith(strip(ls[k]), Fence)
         THEN OpenFence(ls, k + 1, IF open = 0 THEN k ELSE 0)
    ELSE OpenFence(ls, k + 1, open)

Unclosed == OpenFence(lines, 1, 0)

\* All the lines after the unclosed opening fence, joined by newlines.
UnclosedCode == join(SubSeq(lines, Unclosed + 1, Len(lines)))

\* C11 (as claimed): when an opening fence has no closing fence, the lines
\* after it up to the end of the document are the code content of the
\* current record, which is emitted as the last record with type code.
C11_UnclosedFenceEmitted ==
    (Returned /\ Unclosed # 0) =>
        /\ Len(slides) >= 1
        /\ slides[Len(slides)].type = "code"
        /\ slides[Len(slides)].content = UnclosedCode

\* The state part of C11 (amended): the parser always has a step to take;
\* with an unclosed fence the current record ends with type code and the
\* lines after the fence as content, and it is the last record returned
\* exactly when its title or that content is not empty.
C11_UnclosedFenceState ==
    /\ pc = "parse" => ENABLED Next
    /\ (Parsed /\ Unclosed # 0) =>
          /\ current_slide.type = "code"
          /\ current_slide.content = UnclosedCode
          /\ IF current_slide.title # "" \/ UnclosedCode # ""
             THEN Len(slides) >= 1 /\ slides[Len(slides)] = current_slide
             ELSE \A k \in 1..Len(slides) : slides[k] # current_slide

\* C11 (amended): parsing every document terminates without raising, and an
\* unclosed fence makes the rest of the document the code content of the
\* current record, emitted as the last record with type code unless its
\* title and content are both empty, in which case it is not emitted.
C11_TerminatesAndUnclosedFenceIsCode ==
    <>(pc # "parse") /\ []C11_UnclosedFenceState

\* C11 witness: a parsed document whose unclosed fence swallowed a ## line
\* and a blank line, emitted as the last record.
C11_Witness ==
    /\ Returned
    /\ Unclosed # 0
    /\ Unclosed + 2 <= Len(lines)
    /\ \E k \in (Unclosed + 1)..Len(lines) : startswith(lines[k], "## ")
    /\ \E k \in (Unclosed + 1)..Len(lines) : lines[k] = ""
    /\ slides[Len(slides)].content = UnclosedCode

(* ---------------------- properties: the title slide ------------------- *)

\* The first non-empty line of a content, and the content without that line.
RECURSIVE FirstNonEmpty(_)
FirstNonEmpty(ls) ==
    IF ls = <<>> THEN ""
    ELSE IF ls[1] # "" THEN ls[1] ELSE FirstNonEmpty(Tail(ls))

RECURSIVE DropFirstNonEmpty(_)
DropFirstNonEmpty(ls) ==
    IF ls = <<>> THEN <<>>
    ELSE IF ls[1] # "" THEN Tail(ls)
    ELSE <<ls[1]>> \o DropFirstNonEmpty(Tail(ls))

\* C12 (as claimed): on the title slide the subtitle is the first non-empty
\* line of the record's content and the author/info block is the remaining
\* content, that is the content without the subtitle line.
C12_AuthorInfoIsRemainingContent ==
    \A k \in 1..Len(deck) :
        deck[k].kind = "title" =>
            /\ deck[k].subtitle = FirstNonEmpty(split(slides[k].content))
            /\ deck[k].author_info =
                   join(DropFirstNonEmpty(split(slides[k].content)))

(* -------------------- properties: bullets of a slide ------------------ *)

\* The document is one content slide: a ## heading line followed by plain
\* body lines (no blank line, heading, separator or fence).
PlainBody(l) ==
    /\ strip(l) # "" /\ strip(l) # "---"
    /\ ~startswith(strip(l), "# ") /\ ~startswith(strip(l), "## ")
    /\ ~startswith(strip(l), Fence)

OneContentSlide ==
    /\ Len(lines) >= 2
    /\ startswith(lines[1], "## ")
    /\ ~HasKeyword(lines[1])
    /\ \A k \in 2..Len(lines) : PlainBody(lines[k])

\* C13 (as claimed): in a content slide, a body line written in the source
\* as two spaces and "- " is rendered as a level 1 bullet and a line written
\* as "- " without indentation as a level 0 bullet, whatever its position in
\* the body.
C13_IndentedBulletIsLevelOne ==
    (pc = "done" /\ OneContentSlide) =>
        /\ Len(deck) = 1
        /\ deck[1].kind = "content"
        /\ Len(deck[1].paragraphs) = Len(lines) - 1
        /\ \A k \in 2..Len(lines) :
              /\ startswith(lines[k], "  - ") =>
                    deck[1].paragraphs[k - 1].level = 1
              /\ startswith(lines[k], "- ") =>
                    deck[1].paragraphs[k - 1].level = 0

(* ------------- properties: a fence in a record with content ----------- *)

\* The scan is at a fence line of a record that already holds content.
FenceOpensWithContent ==
    /\ Scanning
    /\ ~IsSeparator /\ ~IsH1 /\ ~IsH2 /\ IsFence
    /\ current_slide.content # ""

\* C14 (as claimed): when a fence opens in a record that already holds
\* content, the fenced lines are appended to that content, so the content
\* accumulated before the fence is still in the record.
C14_FenceAppendsToContent ==
    [][FenceOpensWithContent =>
          current_slide'.content =
              current_slide.content \o FenceContent(lines, i)]_vars

\* C14 (amended): when a fence opens in a record that already holds content,
\* the fenced lines replace that content: after the block the content of the
\* record is exactly the lines between the fences, the earlier content is
\* gone, and the title is unchanged.
C14_FenceReplacesContent ==
    [][FenceOpensWithContent =>
          /\ current_slide'.content = FenceContent(lines, i)
          /\ current_slide'.type = "code"
          /\ current_slide'.title = current_slide.title
          /\ slides' = slides]_vars

\* A plain line, then a closed empty fenced block: the scan is past the
\* block and the plain line is no longer in the record.
C14_Witness ==
    /\ pc = "parse"
    /\ Len(lines) >= 3
    /\ lines[1] = "x" /\ lines[2] = "~~~py" /\ lines[3] = "~~~"
    /\ i = 3
    /\ current_slide.type = "code"
    /\ current_slide.content = ""
    /\ slides = <<>>

(* ------------------ properties: later # heading lines ----------------- *)

\* The scan is at a line that is a # heading.
AtH1Line == Scanning /\ startswith(line, "# ")

\* An earlier line of the document is a # heading, and no fence precedes
\* the current line.
LaterH1Line ==
    /\ AtH1Line
    /\ \E k \in 1..i : startswith(strip(lines[k]), "# ")
    /\ \A k \in 1..i : ~startswith(strip(lines[k]), Fence)

\* The line is kept as a plain content line of the current record.
KeptAsContent ==
    /\ current_slide' =
          [current_slide EXCEPT !.content = @ \o line \o "\n"]
    /\ slides' = slides

\* C15 (as claimed): only the first # heading line of a document sets a
\* title; every later one, also after a --- separator, is kept as a plain
\* content line and changes neither the title nor the type.
C15_OnlyFirstH1SetsTitle == [][LaterH1Line => KeptAsContent]_vars

\* C15 (amended): a # heading line sets the title exactly when the current
\* record has no title (the first such line of the document, or one in a
\* record opened by a --- separator); the content is then unchanged. When
\* the current record has a title, the line is kept as a plain content line
\* and changes neither the title nor the type.
C15_H1SetsTitleOfUntitledRecord ==
    [][AtH1Line =>
          IF current_slide.title = ""
          THEN /\ current_slide'.title = strip(SliceFrom(line, 2))
               /\ current_slide'.type =
                     (IF i = 0 THEN "title" ELSE "content")
               /\ current_slide'.content = current_slide.content
               /\ slides' = slides
          ELSE KeptAsContent]_vars

\* "# T", "# T", "---", "# T": the second heading is content of the first
\* record, the third one is the title of the record the separator opened.
C15_Witness ==
    /\ pc = "parse"
    /\ Len(lines) = 4
    /\ i = 4
    /\ lines[3] = "---" /\ lines[4] = "# T"
    /\ Len(slides) = 1
    /\ slides[1].title = "T" /\ slides[1].content = "# T\n"
    /\ current_slide.title = "T" /\ current_slide.type = "content"
    /\ current_slide.content = ""

====
